---- MODULE Spec2Model ----
(***************************************************************************)
(* A model of scripts/meetings_fetch.py: the month window (month_range),   *)
(* the paginated event fetch (fetch_events), the attendance lookup         *)
(* (fetch_attendance), the report assembly, the scan of the browser        *)
(* storage for a token (extract_access_token), its polling loop            *)
(* (wait_for_access_token), the account-tile selection                     *)
(* (try_select_account_tile) and the control flow of main, with the        *)
(* browser and the HTTP server as a nondeterministic environment.          *)
(*                                                                         *)
(* Text is a sequence of one-character strings.  An optional value is a    *)
(* record [given, text].  A date-time is [y, m, t, us]: year, month, whole *)
(* seconds since the first instant of the month, and microseconds.         *)
(***************************************************************************)
EXTENDS Integers, Sequences, FiniteSets, TLC

VARIABLES
    call,            \* the function under call and its arguments (function specifications)
    ret,             \* what the call returned, or Pending
    cfg,             \* main: args.headless, args.attendance, MS_USERNAME/MS_PASSWORD set, month_key
    pc,              \* main: the statement main is at
    driver,          \* main: "none", "open" (build_driver returned) or "quit"
    access_token,    \* main: the local access_token
    sign_in_clicked, \* main: the local sign_in_clicked
    headers,         \* main: the bearer token put in the request headers
    all_events,      \* main: the local all_events
    stdout,          \* main: the documents printed on standard output
    exit_code,       \* main: the process exit status, -1 while running
    quits,           \* history: the number of driver.quit() calls
    abort,           \* history: why the run ended without a report
    strategies,      \* history: the acquisition strategies begun, <<number, token held>>
    lastWait,        \* history: the bounded wait of the last step and whether it timed out
    ui,              \* history: the user-interface interactions performed
    opsAfterQuit,    \* history: a browser operation happened after driver.quit()
    initialPoll,     \* history: whether the poll of line 453 returned, and what
    api_requests     \* history: the HTTP requests issued, [api, token, event]

funVars == <<call, ret>>

exitVars == <<driver, exit_code, quits, abort>>

pipeVars == <<headers, all_events, stdout, api_requests>>

mainVars ==
    <<cfg, pc, driver, access_token, sign_in_clicked, headers, all_events, stdout,
      exit_code, quits, abort, strategies, lastWait, ui, opsAfterQuit, initialPoll,
      api_requests>>

vars == <<funVars, mainVars>>

Pending == [status |-> "pending"]

NoCall == [fn |-> "none"]

(***************************************************************************)
(* Text helpers                                                            *)
(***************************************************************************)
Digits == {"0", "1", "2", "3", "4", "5", "6", "7", "8", "9"}

IsDigit(c) == c \in Digits

DigitVal(c) ==
    CASE c = "0" -> 0 [] c = "1" -> 1 [] c = "2" -> 2 [] c = "3" -> 3
      [] c = "4" -> 4 [] c = "5" -> 5 [] c = "6" -> 6 [] c = "7" -> 7
      [] c = "8" -> 8 [] c = "9" -> 9 [] OTHER -> 0

MinOf(S) == CHOOSE x \in S : \A y \in S : x <= y

\* str.split(sep): the parts between the occurrences of sep, empty parts kept
RECURSIVE Split(_, _)
Split(s, sep) ==
    LET idx == {i \in 1..Len(s) : s[i] = sep}
    IN  IF idx = {} THEN <<s>>
        ELSE LET i == MinOf(idx)
             IN  <<SubSeq(s, 1, i - 1)>> \o Split(SubSeq(s, i + 1, Len(s)), sep)

RECURSIVE LStrip(_)
LStrip(s) == IF s # <<>> /\ s[1] = " " THEN LStrip(Tail(s)) ELSE s

RECURSIVE RStrip(_)
RStrip(s) ==
    IF s # <<>> /\ s[Len(s)] = " " THEN RStrip(SubSeq(s, 1, Len(s) - 1)) ELSE s

Strip(s) == RStrip(LStrip(s))

Unsigned(s) == IF s # <<>> /\ s[1] \in {"+", "-"} THEN Tail(s) ELSE s

\* the digit run of an integer literal: digits, single underscores between digits
DigitRunOK(u) ==
    /\ Len(u) >= 1
    /\ \A i \in 1..Len(u) :
          \/ IsDigit(u[i])
          \/ /\ u[i] = "_"
             /\ i > 1 /\ i < Len(u)
             /\ IsDigit(u[i - 1]) /\ IsDigit(u[i + 1])

RECURSIVE DigitRunValue(_, _)
DigitRunValue(u, acc) ==
    IF u = <<>> THEN acc
    ELSE IF u[1] = "_" THEN DigitRunValue(Tail(u), acc)
    ELSE DigitRunValue(Tail(u), acc * 10 + DigitVal(u[1]))

\* int(text) succeeds: surrounding blanks, an optional sign, a digit run
IntOK(s) == DigitRunOK(Unsigned(Strip(s)))

\* int(text), when IntOK(text)
IntValue(s) ==
    LET t == Strip(s)
        v == DigitRunValue(Unsigned(t), 0)
    IN  IF t # <<>> /\ t[1] = "-" THEN 0 - v ELSE v

(***************************************************************************)
(* Date-times                                                              *)
(***************************************************************************)
IsLeap(y) == (y % 4 = 0 /\ y % 100 # 0) \/ y % 400 = 0

DaysInMonth(y, m) ==
    IF m = 2 THEN (IF IsLeap(y) THEN 29 ELSE 28)
    ELSE IF m \in {4, 6, 9, 11} THEN 30 ELSE 31

SecondsInMonth(y, m) == DaysInMonth(y, m) * 86400

\* datetime(year, month, 1, tzinfo=utc) is constructible
DateOK(y, m) == y >= 1 /\ y <= 9999 /\ m >= 1 /\ m <= 12

FirstOfMonth(y, m) == [y |-> y, m |-> m, t |-> 0, us |-> 0]

\* a <= b on date-times
DTLe(a, b) ==
    \/ a.y < b.y
    \/ a.y = b.y /\ a.m < b.m
    \/ a.y = b.y /\ a.m = b.m /\ a.t < b.t
    \/ a.y = b.y /\ a.m = b.m /\ a.t = b.t /\ a.us <= b.us

\* the end is not clamped to the month: now is taken as it is
MinDTFirst(a, b) == a

\* min(a, b)
MinDT(a, b) == IF DTLe(a, b) THEN a ELSE b

\* d - timedelta(seconds=1)
MinusOneSecond(d) ==
    IF d.t >= 1 THEN [d EXCEPT !.t = d.t - 1]
    ELSE LET py == IF d.m = 1 THEN d.y - 1 ELSE d.y
             pm == IF d.m = 1 THEN 12 ELSE d.m - 1
         IN  [y |-> py, m |-> pm, t |-> SecondsInMonth(py, pm) - 1, us |-> d.us]

\* strftime("%Y-%m-%dT%H:%M:%SZ"): whole seconds, the microseconds are dropped
Strftime(d) == [y |-> d.y, m |-> d.m, t |-> d.t]

\* strftime("%Y-%m")
StrftimeMonth(d) == [y |-> d.y, m |-> d.m]

(***************************************************************************)
(* month_range                                                             *)
(***************************************************************************)
NoneText == [given |-> FALSE, text |-> <<>>]

Some(s) == [given |-> TRUE, text |-> s]

\* Python truthiness of an optional text: None and "" are false
Truthy(v) == v.given /\ v.text # <<>>

\* the try block: split on "-" into exactly two parts, int() both, datetime()
MonthParses(text) ==
    LET parts == Split(text, "-")
    IN  /\ Len(parts) = 2
        /\ IntOK(parts[1]) /\ IntOK(parts[2])
        /\ DateOK(IntValue(parts[1]), IntValue(parts[2]))

MonthStart(text) ==
    LET parts == Split(text, "-")
    IN  FirstOfMonth(IntValue(parts[1]), IntValue(parts[2]))

MonthRange(month_value, now) ==
    IF Truthy(month_value) /\ ~MonthParses(month_value.text)
    THEN [status |-> "InvalidMonthFormat"]
    ELSE LET start == IF Truthy(month_value) THEN MonthStart(month_value.text)
                      ELSE FirstOfMonth(now.y, now.m)
         IN  IF start.m = 12 /\ ~DateOK(start.y + 1, 1)
             THEN [status |-> "ValueError"]   \* datetime(10000, 1, 1) outside the try
             ELSE LET next_month == IF start.m = 12
                                    THEN FirstOfMonth(start.y + 1, 1)
                                    ELSE FirstOfMonth(start.y, start.m + 1)
                      end == MinDT(now, MinusOneSecond(next_month))
                  IN  [status |-> "ok",
                       start_iso |-> Strftime(start),
                       end_iso |-> Strftime(end),
                       key |-> StrftimeMonth(start)]

(***************************************************************************)
(* Inputs of month_range                                                   *)
(***************************************************************************)
MaxLen == 7

Alphabet == {"0", "1", "2", "-", "/"}

TextsUpTo(n) == UNION {[1..k -> Alphabet] : k \in 0..n}

\* inputs outside the small alphabet: blanks, a sign, an underscore, the last year
ExtraTexts ==
    { <<" ", "2", "0", "2", "1", "-", "0", "1">>,
      <<"2", "0", "2", "1", "-", "+", "1">>,
      <<"2", "_", "0", "2", "1", "-", "1", "2">>,
      <<"2", "0", "2", "1", "-", "1", "3">>,
      <<"9", "9", "9", "9", "-", "1", "2">>,
      <<"a", "b", "c", "d">> }

Years == { <<"0", "0", "0", "0">>, <<"2", "0", "2", "0">>, <<"2", "0", "2", "1">>,
           <<"2", "0", "2", "2">>, <<"2", "0", "2", "4">> }

Months == { <<"0", "0">>, <<"0", "1">>, <<"0", "2">>, <<"0", "3">>, <<"0", "4">>,
            <<"1", "1">>, <<"1", "2">>, <<"1", "3">> }

ShapedTexts == {y \o <<"-">> \o m : y \in Years, m \in Months}

NowYears == {2021, 2022}

\* first instant, second day, last second of a 28-day and of a 31-day month
Nows ==
    {n \in [y : NowYears, m : {1, 2, 12},
            t : {0, 86400, 2419199, 2678399}, us : {0, 500000}] :
        n.t < SecondsInMonth(n.y, n.m)}

FixedNow == [y |-> 2021, m |-> 12, t |-> 86400, us |-> 500000]

\* main is not running
MainIdle ==
    /\ cfg = [headless |-> FALSE, attendance |-> FALSE, username |-> FALSE,
              password |-> FALSE, month_key |-> [y |-> 0, m |-> 0]]
    /\ pc = "idle"
    /\ driver = "none"
    /\ access_token = <<>>
    /\ sign_in_clicked = FALSE
    /\ headers = <<>>
    /\ all_events = <<>>
    /\ stdout = <<>>
    /\ exit_code = -1
    /\ quits = 0
    /\ abort = "none"
    /\ strategies = <<>>
    /\ lastWait = [name |-> "none", timedOut |-> FALSE]
    /\ ui = {}
    /\ opsAfterQuit = FALSE
    /\ initialPoll = [done |-> FALSE, token |-> <<>>]
    /\ api_requests = {}

MonthInit ==
    /\ MainIdle
    /\ \/ \E s \in ShapedTexts \cup {<<>>}, g \in BOOLEAN, n \in Nows :
            call = [fn |-> "month_range",
                    month_value |-> IF g THEN Some(s) ELSE NoneText, now |-> n]
       \/ \E s \in TextsUpTo(MaxLen) \cup ExtraTexts :
            call = [fn |-> "month_range", month_value |-> Some(s), now |-> FixedNow]
    /\ ret = Pending

MonthRangeCall ==
    /\ call.fn = "month_range"
    /\ ret = Pending
    /\ ret' = MonthRange(call.month_value, call.now)
    /\ UNCHANGED <<call, mainVars>>

MonthNext == MonthRangeCall

SpecMonth == MonthInit /\ [][MonthNext]_vars

(***************************************************************************)
(* fetch_events                                                            *)
(*                                                                         *)
(* The server's answer to the query is a chain of pages: page i carries a  *)
(* continuation link to page i + 1 when there is one.  A page is           *)
(* [status, items]: "ok" (HTTP 200 with a JSON body), "fail" (any other    *)
(* status) or "raise" (requests.get or response.json raises).  A url is a  *)
(* page number, 0 for None.                                                *)
(***************************************************************************)
NextLink(pages, url) == IF url < Len(pages) THEN url + 1 ELSE 0

\* a failed page does not end the loop
RECURSIVE FetchLoopSkipFailed(_, _, _, _)
FetchLoopSkipFailed(pages, url, events, requested) ==
    IF url = 0 THEN [raised |-> FALSE, events |-> events, requested |-> requested]
    ELSE IF pages[url].status = "raise"
         THEN [raised |-> TRUE, events |-> events, requested |-> Append(requested, url)]
    ELSE IF pages[url].status = "ok"
         THEN FetchLoopSkipFailed(pages, NextLink(pages, url),
                                  events \o pages[url].items, Append(requested, url))
    ELSE FetchLoopSkipFailed(pages, NextLink(pages, url), events, Append(requested, url))

\* the while loop: one iteration per requested page
RECURSIVE FetchLoop(_, _, _, _)
FetchLoop(pages, url, events, requested) ==
    IF url = 0 THEN [raised |-> FALSE, events |-> events, requested |-> requested]
    ELSE IF pages[url].status = "raise"
         THEN [raised |-> TRUE, events |-> events, requested |-> Append(requested, url)]
    ELSE IF pages[url].status = "ok"
         THEN FetchLoop(pages, NextLink(pages, url),
                        events \o pages[url].items, Append(requested, url))
    ELSE FetchLoop(pages, 0, events, Append(requested, url))

\* fetch_events(api_url, headers) against the chain: the events returned, the
\* pages requested in order, and whether an exception left the function
FetchEvents(pages) == FetchLoop(pages, 1, <<>>, <<>>)

(***************************************************************************)
(* Raw events, parse_event_time                                            *)
(*                                                                         *)
(* A time part is the way parse_event_time sees it: "absent" (no part, or  *)
(* an empty one), "no_dateTime" (dateTime missing or empty), "unparsable"  *)
(* (fromisoformat raises), "naive" (parses, no offset) or "aware".         *)
(***************************************************************************)
TimeParts == {"absent", "no_dateTime", "unparsable", "naive", "aware"}

\* parse_event_time(part, tz): a date-time, or None
ParseEventTime(part) ==
    IF part = "absent" THEN "None"
    ELSE IF part = "no_dateTime" THEN "None"
    ELSE IF part = "unparsable" THEN "None"
    ELSE "datetime"

(***************************************************************************)
(* fetch_attendance                                                        *)
(*                                                                         *)
(* The attendance server is [meet, reports, records]: the answers to the   *)
(* three lookups.  An answer is [status, value] with status as for a page. *)
(* meet.value is the list of meeting ids, reports.value the list of        *)
(* [id, created], records.value maps a report id to the list of the        *)
(* records' emails (an id 0 or an email "" is a missing or empty one).     *)
(***************************************************************************)
Absent == [present |-> FALSE, count |-> 0, emails |-> {}]

Present(n, emails) == [present |-> TRUE, count |-> n, emails |-> emails]

\* list.sort(key=createdDateTime): a stable insertion by key
RECURSIVE InsertByCreated(_, _)
InsertByCreated(sorted, r) ==
    IF sorted = <<>> THEN <<r>>
    ELSE IF sorted[Len(sorted)].created <= r.created THEN Append(sorted, r)
    ELSE Append(InsertByCreated(SubSeq(sorted, 1, Len(sorted) - 1), r),
                sorted[Len(sorted)])

\* the list left in the order of the response
KeepOrder(reports) == reports

RECURSIVE SortByCreated(_)
SortByCreated(reports) ==
    IF reports = <<>> THEN <<>>
    ELSE InsertByCreated(SortByCreated(SubSeq(reports, 1, Len(reports) - 1)),
                         reports[Len(reports)])

Done(result, log) == [raised |-> FALSE, result |-> result, log |-> log]

\* the except clause is missing: a failing call leaves the function
AttendanceFailedUncaught(log) == [raised |-> TRUE, result |-> Absent, log |-> log]

\* except Exception: log and return None
AttendanceFailed(log) == Done(Absent, log)

\* fetch_attendance(join_url, headers) against the server: the result, the
\* requests issued in order, and whether an exception left the function
FetchAttendance(join_url, server) ==
    IF join_url = "none" THEN Done(Absent, <<>>)
    ELSE IF server.meet.status = "raise" THEN AttendanceFailed(<<"meetings">>)
    ELSE IF server.meet.status # "ok" THEN Done(Absent, <<"meetings">>)
    ELSE IF server.meet.value = <<>> THEN Done(Absent, <<"meetings">>)
    ELSE IF server.meet.value[1] = 0 THEN Done(Absent, <<"meetings">>)
    ELSE IF server.reports.status = "raise"
         THEN AttendanceFailed(<<"meetings", "reports">>)
    ELSE IF server.reports.status # "ok" THEN Done(Absent, <<"meetings", "reports">>)
    ELSE IF server.reports.value = <<>> THEN Done(Absent, <<"meetings", "reports">>)
    ELSE LET sorted == SortByCreated(server.reports.value)
             report_id == sorted[Len(sorted)].id
             log == <<"meetings", "reports", "records">>
         IN  IF report_id = 0 THEN Done(Absent, <<"meetings", "reports">>)
             ELSE IF server.records.status = "raise" THEN AttendanceFailed(log)
             ELSE IF server.records.status # "ok" THEN Done(Absent, log)
             ELSE LET records == server.records.value[report_id]
                  IN  Done(Present(Len(records),
                                   {records[i] : i \in 1..Len(records)} \ {""}),
                           log)

(***************************************************************************)
(* The report assembly of main                                             *)
(*                                                                         *)
(* A raw event is [id, start, end, join]: start and end are time parts,    *)
(* join is the join url or "none".                                         *)
(***************************************************************************)
\* the event is dropped only when both times fail to parse
KeepsEventEitherTime(e) ==
    ~(ParseEventTime(e.start) = "None" /\ ParseEventTime(e.end) = "None")

\* if not start_local or not end_local: continue
KeepsEvent(e) ==
    ~(ParseEventTime(e.start) = "None" \/ ParseEventTime(e.end) = "None")

\* the for loop over all_events: the meetings appended and the attendance calls
\* made, until an exception leaves the loop
RECURSIVE AssembleLoop(_, _, _, _, _)
AssembleLoop(events, attendance, server, meetings, calls) ==
    IF events = <<>> THEN [raised |-> FALSE, meetings |-> meetings, calls |-> calls]
    ELSE LET e == Head(events)
         IN  IF ~KeepsEvent(e)
             THEN AssembleLoop(Tail(events), attendance, server, meetings, calls)
             ELSE IF ~attendance
             THEN AssembleLoop(Tail(events), attendance, server,
                      Append(meetings, [id |-> e.id, attendance |-> Absent]), calls)
             ELSE LET a == FetchAttendance(e.join, server)
                      c == [id |-> e.id, join |-> e.join, log |-> a.log,
                            result |-> a.result]
                  IN  IF a.raised
                      THEN [raised |-> TRUE, meetings |-> meetings,
                            calls |-> Append(calls, c)]
                      ELSE AssembleLoop(Tail(events), attendance, server,
                               Append(meetings, [id |-> e.id, attendance |-> a.result]),
                               Append(calls, c))

\* from the loop to json.dumps: the report, or the exception that prevents it
Assemble(events, attendance, server, month_key) ==
    LET r == AssembleLoop(events, attendance, server, <<>>, <<>>)
    IN  [raised |-> r.raised,
         calls |-> r.calls,
         output |-> [month |-> month_key, count |-> Len(r.meetings),
                     meetings |-> r.meetings]]

(***************************************************************************)
(* Inputs of fetch_events and of the report assembly                       *)
(***************************************************************************)
MaxPages == 3

MaxItems == 2

MaxEvents == 3

Event(i, s, e, j) == [id |-> i, start |-> s, end |-> e, join |-> j]

\* the items the pages of the fetch specification carry
FetchPool == {Event(1, "naive", "aware", "u1"), Event(2, "no_dateTime", "aware", "none")}

ItemSeqs == UNION {[1..k -> FetchPool] : k \in 0..MaxItems}

PageSet ==
    {[status |-> "ok", items |-> it] : it \in ItemSeqs}
      \cup {[status |-> "fail", items |-> <<>>], [status |-> "raise", items |-> <<>>]}

Chains == UNION {[1..k -> PageSet] : k \in 1..MaxPages}

\* the raw events of the assembly specification
EventPool ==
    { Event(1, "naive", "aware", "u1"),
      Event(2, "no_dateTime", "aware", "u1"),
      Event(3, "aware", "unparsable", "none"),
      Event(4, "aware", "naive", "none"),
      Event(5, "absent", "absent", "u1"),
      Event(6, "naive", "absent", "none") }

EventSeqs == UNION {[1..k -> EventPool] : k \in 0..MaxEvents}

Answer(st, v) == [status |-> st, value |-> v]

Report(i, c) == [id |-> i, created |-> c]

MeetAnswers ==
    {Answer("raise", <<>>), Answer("fail", <<>>), Answer("ok", <<>>),
     Answer("ok", <<0>>), Answer("ok", <<7, 8>>)}

ReportsAnswers ==
    {Answer("raise", <<>>), Answer("fail", <<>>), Answer("ok", <<>>),
     Answer("ok", <<Report(0, 1)>>), Answer("ok", <<Report(1, 1)>>),
     Answer("ok", <<Report(2, 5), Report(1, 3)>>),
     Answer("ok", <<Report(1, 3), Report(2, 3)>>)}

RecordsOf == (1 :> <<"a@x", "">>) @@ (2 :> <<"a@x", "b@x", "a@x">>)

RecordsAnswers ==
    {Answer("raise", RecordsOf), Answer("fail", RecordsOf), Answer("ok", RecordsOf)}

AttServers == [meet : MeetAnswers, reports : ReportsAnswers, records : RecordsAnswers]

MonthKeys == {[y |-> 2021, m |-> 12]}

FetchInit ==
    /\ MainIdle
    /\ \E pages \in Chains : call = [fn |-> "fetch_events", pages |-> pages]
    /\ ret = Pending

FetchEventsCall ==
    /\ call.fn = "fetch_events"
    /\ ret = Pending
    /\ ret' = FetchEvents(call.pages)
    /\ UNCHANGED <<call, mainVars>>

FetchNext == FetchEventsCall

SpecFetch == FetchInit /\ [][FetchNext]_vars

AssembleInit ==
    /\ MainIdle
    /\ \E events \in EventSeqs, att \in BOOLEAN, server \in AttServers, k \in MonthKeys :
          call = [fn |-> "assemble", events |-> events, attendance |-> att,
                  server |-> server, month_key |-> k]
    /\ ret = Pending

AssembleCall ==
    /\ call.fn = "assemble"
    /\ ret = Pending
    /\ ret' = Assemble(call.events, call.attendance, call.server, call.month_key)
    /\ UNCHANGED <<call, mainVars>>

AssembleNext == AssembleCall

SpecAssemble == AssembleInit /\ [][AssembleNext]_vars

(***************************************************************************)
(* main, from build_driver on                                              *)
(*                                                                         *)
(* The arguments are parsed and the month window is resolved (cfg).  The   *)
(* browser is the environment: every bounded wait either finds its element *)
(* or times out (WebDriverWait.until raises TimeoutException), every scan  *)
(* of the open windows finds the title or not, and every storage, page or  *)
(* clipboard read yields one of the values below.  A token is the tuple of *)
(* the lengths of its dot-separated parts; <<>> is None, <<0>> is "".      *)
(***************************************************************************)
NoToken == <<>>

TokTruthy(t) == t # <<>> /\ t # <<0>>

\* what extract_access_token can return besides None: a string shaped like a
\* JWT, or the secret of a tagged entry, whatever its shape
StorageTokens == {<<11, 11, 11>>, <<5>>}

\* what wait_for_access_token can return
PollResults == {NoToken} \cup StorageTokens

\* what pbpaste can print, stripped
ClipboardTexts == {<<0>>, <<12, 11, 11>>}

\* what extract_token_from_dom can return
DomResults == {NoToken, <<11, 11, 1>>}

\* the answers of the calendar API and of the attendance API in a run of main
MainChains ==
    { <<[status |-> "ok", items |-> <<Event(1, "naive", "aware", "u1"),
                                      Event(2, "no_dateTime", "aware", "u1")>>]>>,
      <<[status |-> "ok", items |-> <<Event(1, "naive", "aware", "u1")>>],
        [status |-> "fail", items |-> <<>>]>>,
      <<[status |-> "fail", items |-> <<>>]>>,
      <<[status |-> "raise", items |-> <<>>]>> }

MainServers ==
    { [meet |-> Answer("ok", <<7>>), reports |-> Answer("ok", <<Report(1, 1)>>),
       records |-> Answer("ok", RecordsOf)],
      [meet |-> Answer("raise", <<>>), reports |-> Answer("ok", <<Report(1, 1)>>),
       records |-> Answer("ok", RecordsOf)] }

MainInit ==
    /\ call = NoCall
    /\ ret = Pending
    /\ cfg \in [headless : BOOLEAN, attendance : BOOLEAN, username : BOOLEAN,
                password : BOOLEAN, month_key : MonthKeys]
    /\ pc = "build_driver"
    /\ driver = "none"
    /\ access_token = NoToken
    /\ sign_in_clicked = FALSE
    /\ headers = NoToken
    /\ all_events = <<>>
    /\ stdout = <<>>
    /\ exit_code = -1
    /\ quits = 0
    /\ abort = "none"
    /\ strategies = <<>>
    /\ lastWait = [name |-> "none", timedOut |-> FALSE]
    /\ ui = {}
    /\ opsAfterQuit = FALSE
    /\ initialPoll = [done |-> FALSE, token |-> <<>>]
    /\ api_requests = {}

\* the step is the bounded wait `name`
Wait(name, timedOut) == lastWait' = [name |-> name, timedOut |-> timedOut]

NoWait == lastWait' = [name |-> "none", timedOut |-> FALSE]

\* the step uses the browser session
BrowserOp == opsAfterQuit' = (opsAfterQuit \/ driver # "open")

Begin(n) == strategies' = Append(strategies, <<n, TokTruthy(access_token)>>)

\* main ends without the finally clause
LeaveNoQuit(code, why) ==
    /\ pc' = "done"
    /\ exit_code' = code
    /\ abort' = why
    /\ UNCHANGED <<driver, quits>>

\* return or uncaught exception inside the try: finally driver.quit(), then the
\* process ends with the status
Leave(code, why) ==
    /\ pc' = "done"
    /\ exit_code' = code
    /\ abort' = why
    /\ driver' = "quit"
    /\ quits' = quits + 1

\* an exception no clause of main catches: the interpreter exits with status 1
Raise == Leave(1, "exception")

Goto(next) == pc' = next /\ UNCHANGED exitVars

Frame == UNCHANGED <<cfg, call, ret, pipeVars, initialPoll>>

BuildDriver ==
    /\ pc = "build_driver"
    /\ driver' = "open"
    /\ pc' = "load_page"
    /\ NoWait
    /\ UNCHANGED <<exit_code, quits, abort, access_token, sign_in_clicked, strategies,
                   ui, opsAfterQuit>>
    /\ Frame

\* driver.get(GRAPH_EXPLORER_URL) and the unguarded wait for the body
LoadPage ==
    /\ pc = "load_page"
    /\ \E found \in BOOLEAN :
          /\ Wait("page_body", ~found)
          /\ IF found THEN Goto("poll_existing") ELSE Raise
    /\ BrowserOp
    /\ UNCHANGED <<access_token, sign_in_clicked, strategies, ui>>
    /\ Frame

\* the first poll followed by the sign-in button whatever it returned
PollExistingThenSignIn ==
    /\ pc = "poll_existing"
    /\ Begin(1)
    /\ \E tok \in PollResults :
          /\ access_token' = tok
          /\ Wait("poll_existing", ~TokTruthy(tok))
          /\ initialPoll' = [done |-> TRUE, token |-> tok]
    /\ Goto("sign_in_button")
    /\ BrowserOp
    /\ UNCHANGED <<sign_in_clicked, ui>>
    /\ UNCHANGED <<cfg, call, ret, pipeVars>>

\* access_token = wait_for_access_token(driver, 10)
PollExisting ==
    /\ pc = "poll_existing"
    /\ Begin(1)
    /\ \E tok \in PollResults :
          /\ access_token' = tok
          /\ Wait("poll_existing", ~TokTruthy(tok))
          /\ initialPoll' = [done |-> TRUE, token |-> tok]
          /\ Goto(IF TokTruthy(tok) THEN "verify_window" ELSE "sign_in_button")
    /\ BrowserOp
    /\ UNCHANGED <<sign_in_clicked, ui>>
    /\ UNCHANGED <<cfg, call, ret, pipeVars>>

\* the sign-in flow entered whether or not the button was clicked
SignInButtonAssumed ==
    /\ pc = "sign_in_button"
    /\ Begin(2)
    /\ \E found \in BOOLEAN :
          /\ Wait("sign_in_button", ~found)
          /\ ui' = IF found THEN ui \cup {"click_sign_in"} ELSE ui
    /\ sign_in_clicked' = TRUE
    /\ Goto("login_window")
    /\ BrowserOp
    /\ UNCHANGED <<access_token>>
    /\ Frame

\* if not access_token: wait for the sign-in button and click it
SignInButton ==
    /\ pc = "sign_in_button"
    /\ Begin(2)
    /\ \E found \in BOOLEAN :
          /\ Wait("sign_in_button", ~found)
          /\ sign_in_clicked' = found
          /\ ui' = IF found THEN ui \cup {"click_sign_in"} ELSE ui
          /\ Goto(IF found THEN "login_window" ELSE "verify_window")
    /\ BrowserOp
    /\ UNCHANGED <<access_token>>
    /\ Frame

\* the scan of the window handles ending the run when the title is missing
LoginWindowFatal ==
    /\ pc = "login_window"
    /\ \E found \in BOOLEAN :
          /\ sign_in_clicked' = found
          /\ IF found THEN Goto("login_body") ELSE Leave(1, "window")
    /\ NoWait
    /\ BrowserOp
    /\ ui' = ui \cup {"switch_login_window"}
    /\ UNCHANGED <<access_token, strategies>>
    /\ Frame

\* the scan of the window handles for the title "Sign in"
LoginWindow ==
    /\ pc = "login_window"
    /\ \E found \in BOOLEAN :
          /\ sign_in_clicked' = found
          /\ Goto(IF found THEN "login_body" ELSE "verify_window")
    /\ NoWait
    /\ BrowserOp
    /\ ui' = ui \cup {"switch_login_window"}
    /\ UNCHANGED <<access_token, strategies>>
    /\ Frame

\* the unguarded wait for the body of the login window
LoginBody ==
    /\ pc = "login_body"
    /\ \E found \in BOOLEAN :
          /\ Wait("login_body", ~found)
          /\ IF found THEN Goto("username_field") ELSE Raise
    /\ BrowserOp
    /\ UNCHANGED <<access_token, sign_in_clicked, strategies, ui>>
    /\ Frame

\* the wait for the loginfmt field, and what follows when it is there
UsernameField ==
    /\ pc = "username_field"
    /\ \E found \in BOOLEAN :
          /\ Wait("username_field", ~found)
          /\ IF ~found
             THEN Goto("account_tile") /\ UNCHANGED <<sign_in_clicked, ui>>
             ELSE IF ~cfg.username
             THEN sign_in_clicked' = FALSE /\ Goto("verify_window") /\ UNCHANGED ui
             ELSE /\ ui' = ui \cup {"type_username"}
                  /\ Goto("password_field")
                  /\ UNCHANGED sign_in_clicked
    /\ BrowserOp
    /\ UNCHANGED <<access_token, strategies>>
    /\ Frame

\* except TimeoutException: try_select_account_tile
AccountTile ==
    /\ pc = "account_tile"
    /\ \E account_picked \in BOOLEAN :
          IF account_picked
          THEN /\ ui' = ui \cup {"click_tile"}
               /\ Goto("password_field")
               /\ UNCHANGED sign_in_clicked
          ELSE /\ sign_in_clicked' = FALSE
               /\ ui' = ui \cup {"switch_window"}
               /\ Goto("poll_skipped_login")
    /\ NoWait
    /\ BrowserOp
    /\ UNCHANGED <<access_token, strategies>>
    /\ Frame

\* access_token = wait_for_access_token(driver, 20) after skipping the login
PollSkippedLogin ==
    /\ pc = "poll_skipped_login"
    /\ \E tok \in PollResults :
          /\ access_token' = tok
          /\ Wait("poll_skipped_login", ~TokTruthy(tok))
    /\ Goto("verify_window")
    /\ BrowserOp
    /\ UNCHANGED <<sign_in_clicked, strategies, ui>>
    /\ Frame

\* the wait for the passwd field, and what follows when it is there
PasswordField ==
    /\ pc = "password_field"
    /\ \E found \in BOOLEAN :
          /\ Wait("password_field", ~found)
          /\ IF ~found
             THEN Goto("continue_button") /\ UNCHANGED <<sign_in_clicked, ui>>
             ELSE IF ~cfg.password
             THEN sign_in_clicked' = FALSE /\ Goto("verify_window") /\ UNCHANGED ui
             ELSE /\ ui' = ui \cup {"type_password"}
                  /\ Goto("continue_button")
                  /\ UNCHANGED sign_in_clicked
    /\ BrowserOp
    /\ UNCHANGED <<access_token, strategies>>
    /\ Frame

\* the wait for idSIButton9; a stale element is waited for once more
ContinueButton ==
    /\ pc = "continue_button"
    /\ \E outcome \in {"clicked", "timeout", "stale_clicked", "stale_failed"} :
          /\ Wait("continue_button", outcome \in {"timeout", "stale_failed"})
          /\ ui' = IF outcome \in {"clicked", "stale_clicked"}
                   THEN ui \cup {"click_continue"} ELSE ui
    /\ Goto("push_button")
    /\ BrowserOp
    /\ UNCHANGED <<access_token, sign_in_clicked, strategies>>
    /\ Frame

\* the wait for the push button
PushButton ==
    /\ pc = "push_button"
    /\ \E found \in BOOLEAN :
          /\ Wait("push_button", ~found)
          /\ ui' = IF found THEN ui \cup {"click_push"} ELSE ui
    /\ Goto("stay_signed_in")
    /\ BrowserOp
    /\ UNCHANGED <<access_token, sign_in_clicked, strategies>>
    /\ Frame

\* the wait for the stay-signed-in button
StaySignedIn ==
    /\ pc = "stay_signed_in"
    /\ \E found \in BOOLEAN :
          /\ Wait("stay_signed_in", ~found)
          /\ ui' = IF found THEN ui \cup {"click_stay_signed_in"} ELSE ui
    /\ Goto("graph_window")
    /\ BrowserOp
    /\ UNCHANGED <<access_token, sign_in_clicked, strategies>>
    /\ Frame

\* if sign_in_clicked and not access_token: the scan for the application window
GraphWindow ==
    /\ pc = "graph_window"
    /\ \E found \in BOOLEAN :
          Goto(IF found THEN "poll_after_sign_in" ELSE "navigate_back")
    /\ NoWait
    /\ BrowserOp
    /\ ui' = ui \cup {"switch_window"}
    /\ UNCHANGED <<access_token, sign_in_clicked, strategies>>
    /\ Frame

\* the navigation followed by the scan for the window once more
NavigateBackRescan ==
    /\ pc = "navigate_back"
    /\ \E found \in BOOLEAN :
          /\ Wait("post_navigation_body", ~found)
          /\ IF found THEN Goto("graph_window") ELSE Raise
    /\ BrowserOp
    /\ ui' = ui \cup {"navigate_back"}
    /\ UNCHANGED <<access_token, sign_in_clicked, strategies>>
    /\ Frame

\* driver.get(GRAPH_EXPLORER_URL) and the unguarded wait for the body
NavigateBack ==
    /\ pc = "navigate_back"
    /\ \E found \in BOOLEAN :
          /\ Wait("post_navigation_body", ~found)
          /\ IF found THEN Goto("poll_after_sign_in") ELSE Raise
    /\ BrowserOp
    /\ ui' = ui \cup {"navigate_back"}
    /\ UNCHANGED <<access_token, sign_in_clicked, strategies>>
    /\ Frame

\* access_token = wait_for_access_token(driver, 60)
PollAfterSignIn ==
    /\ pc = "poll_after_sign_in"
    /\ \E tok \in PollResults :
          /\ access_token' = tok
          /\ Wait("poll_after_sign_in", ~TokTruthy(tok))
    /\ Goto("verify_window")
    /\ BrowserOp
    /\ UNCHANGED <<sign_in_clicked, strategies, ui>>
    /\ Frame

\* the scan for the Graph Explorer window; return 1 when it is not found
VerifyWindow ==
    /\ pc = "verify_window"
    /\ \E found \in BOOLEAN :
          IF found THEN Goto("run_query_wait") ELSE Leave(1, "window")
    /\ NoWait
    /\ BrowserOp
    /\ ui' = ui \cup {"switch_window"}
    /\ UNCHANGED <<access_token, sign_in_clicked, strategies>>
    /\ Frame

\* the wait for the run-query button ending the run on every timeout
RunQueryWaitStrict ==
    /\ pc = "run_query_wait"
    /\ \E found \in BOOLEAN :
          /\ Wait("run_query_button", ~found)
          /\ IF found
             THEN Goto(IF ~cfg.headless THEN "token_button"
                       ELSE IF TokTruthy(access_token) THEN "fetch_events"
                       ELSE "poll_final")
             ELSE Leave(1, "run_query")
    /\ BrowserOp
    /\ UNCHANGED <<access_token, sign_in_clicked, strategies, ui>>
    /\ Frame

\* the wait for the run-query button; on a timeout return 1 unless a token is held
RunQueryWait ==
    /\ pc = "run_query_wait"
    /\ \E found \in BOOLEAN :
          /\ Wait("run_query_button", ~found)
          /\ IF found \/ TokTruthy(access_token)
             THEN Goto(IF ~cfg.headless THEN "token_button"
                       ELSE IF TokTruthy(access_token) THEN "fetch_events"
                       ELSE "poll_final")
             ELSE Leave(1, "run_query")
    /\ BrowserOp
    /\ UNCHANGED <<access_token, sign_in_clicked, strategies, ui>>
    /\ Frame

AfterTokenControls(token) == IF TokTruthy(token) THEN "fetch_events" ELSE "poll_final"

\* if not args.headless: the wait for the access-token tab, and the click
TokenButton ==
    /\ pc = "token_button"
    /\ \E found \in BOOLEAN :
          /\ Wait("token_controls", ~found)
          /\ ui' = IF found THEN ui \cup {"click_token_tab"} ELSE ui
          /\ Goto(IF found THEN "copy_button" ELSE AfterTokenControls(access_token))
    /\ BrowserOp
    /\ UNCHANGED <<access_token, sign_in_clicked, strategies>>
    /\ Frame

\* the wait for the copy button, the click, and access_token = pbpaste
CopyButton ==
    /\ pc = "copy_button"
    /\ \E found \in BOOLEAN, clip \in ClipboardTexts :
          /\ Wait("token_controls", ~found)
          /\ ui' = IF found THEN ui \cup {"click_copy"} ELSE ui
          /\ access_token' = IF found THEN clip ELSE access_token
          /\ Goto(AfterTokenControls(access_token'))
    /\ BrowserOp
    /\ UNCHANGED <<sign_in_clicked, strategies>>
    /\ Frame

\* if not access_token: access_token = wait_for_access_token(driver, 20)
PollFinal ==
    /\ pc = "poll_final"
    /\ \E tok \in PollResults :
          /\ access_token' = tok
          /\ Wait("poll_final", ~TokTruthy(tok))
          /\ Goto(IF TokTruthy(tok) THEN "fetch_events" ELSE "trigger")
    /\ BrowserOp
    /\ UNCHANGED <<sign_in_clicked, strategies, ui>>
    /\ Frame

GetTokenClick(k) ==
    CASE k = 1 -> {"get_token_1"} [] k = 2 -> {"get_token_2"}
      [] k = 3 -> {"get_token_3"} [] OTHER -> {}

GetTokenWait(k) ==
    CASE k = 1 -> {"wait_get_token_1"} [] k = 2 -> {"wait_get_token_2"}
      [] k = 3 -> {"wait_get_token_3"} [] OTHER -> {}

RECURSIVE TokenButtonLoop(_, _)

\* the loop over the three selectors of lines 335-344, from the k-th on: wait
\* for the locator to be clickable, click it and break, or go on at a timeout
TokenButtonLoop(k, clickable) ==
    IF k > 3 THEN {}
    ELSE GetTokenWait(k) \cup
           (IF clickable[k] THEN GetTokenClick(k) ELSE TokenButtonLoop(k + 1, clickable))

\* trigger_token_request: the loop, then the wait for the run-query button and
\* its click
TriggerTokenRequest(clickable, run_query) ==
    TokenButtonLoop(1, clickable)
      \cup {"wait_run_query"} \cup (IF run_query THEN {"click_run_query"} ELSE {})

\* if not access_token: trigger_token_request(driver)
Trigger ==
    /\ pc = "trigger"
    /\ Begin(3)
    /\ \E clickable \in [1..3 -> BOOLEAN], run_query \in BOOLEAN :
          /\ ui' = ui \cup TriggerTokenRequest(clickable, run_query)
          /\ Wait("trigger_run_query", ~run_query)
    /\ Goto("poll_triggered")
    /\ BrowserOp
    /\ UNCHANGED <<access_token, sign_in_clicked>>
    /\ Frame

\* access_token = wait_for_access_token(driver, 20) after the trigger
PollTriggered ==
    /\ pc = "poll_triggered"
    /\ \E tok \in PollResults :
          /\ access_token' = tok
          /\ Wait("poll_triggered", ~TokTruthy(tok))
          /\ Goto(IF TokTruthy(tok) THEN "fetch_events" ELSE "dom_scan")
    /\ BrowserOp
    /\ UNCHANGED <<sign_in_clicked, strategies, ui>>
    /\ Frame

\* the on-page scan without the return 1 of lines 661-663
DomScanUnchecked ==
    /\ pc = "dom_scan"
    /\ Begin(4)
    /\ \E tok \in DomResults : access_token' = tok
    /\ Goto("fetch_events")
    /\ NoWait
    /\ BrowserOp
    /\ UNCHANGED <<sign_in_clicked, ui>>
    /\ Frame

\* if not access_token: extract_token_from_dom; if not access_token: return 1
DomScan ==
    /\ pc = "dom_scan"
    /\ Begin(4)
    /\ \E tok \in DomResults :
          /\ access_token' = tok
          /\ IF TokTruthy(tok) THEN Goto("fetch_events") ELSE Leave(1, "token")
    /\ NoWait
    /\ BrowserOp
    /\ UNCHANGED <<sign_in_clicked, ui>>
    /\ Frame

\* headers = {Authorization: Bearer access_token}; all_events = fetch_events(...)
FetchAllEvents ==
    /\ pc = "fetch_events"
    /\ headers' = access_token
    /\ \E pages \in MainChains :
          LET r == FetchEvents(pages)
          IN  /\ api_requests' = api_requests \cup
                    {[api |-> "events", token |-> headers', event |-> 0] :
                       i \in 1..Len(r.requested)}
              /\ IF r.raised
                 THEN Raise /\ UNCHANGED all_events
                 ELSE all_events' = r.events /\ Goto("assemble")
    /\ NoWait
    /\ UNCHANGED <<access_token, sign_in_clicked, strategies, ui, opsAfterQuit, stdout>>
    /\ UNCHANGED <<cfg, call, ret, initialPoll>>

\* the loop over all_events, print(json.dumps(output)) and return 0
EmitReport ==
    /\ pc = "assemble"
    /\ \E server \in MainServers :
          LET r == Assemble(all_events, cfg.attendance, server, cfg.month_key)
          IN  /\ api_requests' = api_requests \cup
                    UNION {{[api |-> r.calls[i].log[j], token |-> headers,
                             event |-> r.calls[i].id] : j \in 1..Len(r.calls[i].log)} :
                             i \in 1..Len(r.calls)}
              /\ IF r.raised
                 THEN Raise /\ UNCHANGED stdout
                 ELSE stdout' = Append(stdout, r.output) /\ Leave(0, "none")
    /\ NoWait
    /\ UNCHANGED <<access_token, sign_in_clicked, strategies, ui, opsAfterQuit,
                   headers, all_events>>
    /\ UNCHANGED <<cfg, call, ret, initialPoll>>

Next ==
    \/ BuildDriver \/ LoadPage \/ PollExisting \/ SignInButton \/ LoginWindow
    \/ LoginBody \/ UsernameField \/ AccountTile \/ PollSkippedLogin
    \/ PasswordField \/ ContinueButton \/ PushButton \/ StaySignedIn
    \/ GraphWindow \/ NavigateBack \/ PollAfterSignIn \/ VerifyWindow
    \/ RunQueryWait \/ TokenButton \/ CopyButton \/ PollFinal \/ Trigger
    \/ PollTriggered \/ DomScan \/ FetchAllEvents \/ EmitReport

Spec == MainInit /\ [][Next]_vars

\* the statements of lines 445-663, up to the point where the headers are built
AcquireNext ==
    \/ BuildDriver \/ LoadPage \/ PollExisting \/ SignInButton \/ LoginWindow
    \/ LoginBody \/ UsernameField \/ AccountTile \/ PollSkippedLogin
    \/ PasswordField \/ ContinueButton \/ PushButton \/ StaySignedIn
    \/ GraphWindow \/ NavigateBack \/ PollAfterSignIn \/ VerifyWindow
    \/ RunQueryWait \/ TokenButton \/ CopyButton \/ PollFinal \/ Trigger
    \/ PollTriggered \/ DomScan

\* the acquisition alone; every statement returns (each wait within its
\* timeout), so main goes on until the acquisition has ended
SpecAcquire == MainInit /\ [][AcquireNext]_vars /\ WF_vars(AcquireNext)

(***************************************************************************)
(* looks_like_jwt, extract_token_from_object, extract_access_token         *)
(*                                                                         *)
(* The browser storage is the list of the values of localStorage followed  *)
(* by those of sessionStorage.  A value is a text that json.loads rejects  *)
(* (kind "text", with the lengths of its dot-separated parts; <<0>> is the *)
(* empty value), a JSON document that is not an object (kind "json"), or a *)
(* JSON object (kind "dict").  An object carries the fields the code       *)
(* reads: credentialType, target, the three token keys, and its values     *)
(* that are objects themselves, in the order of the document.              *)
(***************************************************************************)
\* value.split("."), len(parts) == 3 and every part longer than 10
LooksLikeJwt(value) == Len(value) = 3 /\ \A i \in 1..3 : value[i] > 10

Obj(credentialType, target, secret, accessToken, snake_token, nested) ==
    [credentialType |-> credentialType, target |-> target, secret |-> secret,
     accessToken |-> accessToken, access_token |-> snake_token, nested |-> nested]

NoObj == Obj("none", "none", NoToken, NoToken, NoToken, <<>>)

TextEntry(tok) == [kind |-> "text", tok |-> tok, obj |-> NoObj]

JsonEntry == [kind |-> "json", tok |-> NoToken, obj |-> NoObj]

DictEntry(obj) == [kind |-> "dict", tok |-> NoToken, obj |-> obj]

RECURSIVE ExtractTokenFromObject(_), FirstNestedToken(_)

\* the first of secret, accessToken, access_token that looks like a JWT, else
\* the first token found in a value that is an object
ExtractTokenFromObject(data) ==
    IF LooksLikeJwt(data.secret) THEN data.secret
    ELSE IF LooksLikeJwt(data.accessToken) THEN data.accessToken
    ELSE IF LooksLikeJwt(data.access_token) THEN data.access_token
    ELSE FirstNestedToken(data.nested)

FirstNestedToken(values) ==
    IF values = <<>> THEN NoToken
    ELSE LET token == ExtractTokenFromObject(Head(values))
         IN  IF TokTruthy(token) THEN token ELSE FirstNestedToken(Tail(values))

IsAccessToken(value) == value.credentialType = "AccessToken"

\* "graph.microsoft.com" in (token.get("target") or "").lower()
MentionsGraphHost(token) == token.target \in {"graph.microsoft.com", "GRAPH.MICROSOFT.COM"}

\* the tagged entries an object adds to tokens: itself, else its tagged values
TaggedOf(data) ==
    IF IsAccessToken(data) THEN <<data>> ELSE SelectSeq(data.nested, IsAccessToken)

HasGraphSecret(token) == MentionsGraphHost(token) /\ TokTruthy(token.secret)

HasSecret(token) == TokTruthy(token.secret)

\* the two loops over tokens after the scan
PreferredSecret(tokens) ==
    LET graph == SelectSeq(tokens, HasGraphSecret)
        any == SelectSeq(tokens, HasSecret)
    IN  IF graph # <<>> THEN graph[1].secret
        ELSE IF any # <<>> THEN any[1].secret
        ELSE NoToken

RECURSIVE ScanEntries(_, _)

\* the loop over the entries: a value returns at once when it is a text that
\* looks like a JWT or an object in which extract_token_from_object finds one
ScanEntries(entries, tokens) ==
    IF entries = <<>> THEN PreferredSecret(tokens)
    ELSE LET raw == Head(entries)
             rest == Tail(entries)
         IN  IF raw.kind = "text"
             THEN IF TokTruthy(raw.tok) /\ LooksLikeJwt(raw.tok) THEN raw.tok
                  ELSE ScanEntries(rest, tokens)
             ELSE IF raw.kind = "json"
             THEN ScanEntries(rest, tokens)
             ELSE LET token == ExtractTokenFromObject(raw.obj)
                  IN  IF TokTruthy(token) THEN token
                      ELSE ScanEntries(rest, tokens \o TaggedOf(raw.obj))

\* read is what driver.execute_script does: it raises, or returns the entries
ExtractAccessToken(read) ==
    IF read.status = "raise" THEN NoToken ELSE ScanEntries(read.entries, <<>>)

MaxEntries == 3

Tagged(target, secret) == Obj("AccessToken", target, secret, NoToken, NoToken, <<>>)

StoragePool ==
    { TextEntry(<<0>>), TextEntry(<<3>>), TextEntry(<<13, 11, 11>>), JsonEntry,
      DictEntry(Tagged("graph.microsoft.com", <<11, 11, 11>>)),
      DictEntry(Tagged("GRAPH.MICROSOFT.COM", <<5>>)),
      DictEntry(Tagged("vault.azure.net", <<12, 11, 11>>)),
      DictEntry(Tagged("none", <<6>>)),
      DictEntry(Tagged("graph.microsoft.com", <<0>>)),
      DictEntry(Obj("IdToken", "none", <<7>>, NoToken, <<14, 11, 11>>, <<>>)),
      DictEntry(Obj("none", "none", NoToken, NoToken, NoToken,
                    <<Obj("none", "none", NoToken, <<11, 11, 10>>, NoToken, <<>>),
                      Tagged("graph.microsoft.com", <<8>>)>>)) }

StorageSeqs == UNION {[1..n -> StoragePool] : n \in 0..MaxEntries}

StorageReads ==
    {[status |-> "raise", entries |-> <<>>]}
      \cup {[status |-> "ok", entries |-> es] : es \in StorageSeqs}

ExtractInit ==
    /\ MainIdle
    /\ \E read \in StorageReads : call = [fn |-> "extract_access_token", read |-> read]
    /\ ret = Pending

ExtractAccessTokenCall ==
    /\ call.fn = "extract_access_token"
    /\ ret = Pending
    /\ ret' = [status |-> "returned", value |-> ExtractAccessToken(call.read)]
    /\ UNCHANGED <<call, mainVars>>

ExtractNext == ExtractAccessTokenCall

SpecExtract == ExtractInit /\ [][ExtractNext]_vars

(***************************************************************************)
(* try_select_account_tile, and its call in main (lines 500-510)           *)
(*                                                                         *)
(* The page answers each locator with the elements it matches, or          *)
(* find_elements raises.  An element has a text (reading it may raise) and *)
(* a click that succeeds or raises.  The log lists what the function did   *)
(* to the browser: <<locator, "find", 0>>, then <<locator, "click", i>> or *)
(* <<locator, "click_raised", i>> for the i-th element of the locator.     *)
(***************************************************************************)
UsernameSelectors == <<"xpath_username_lowercase", "xpath_username_ancestor">>

GenericSelectors ==
    <<"css_accountTile", "css_tile", "css_tilesHolder_button",
      "css_tilesHolder_listitem", "css_role_option">>

\* selectors, as built at lines 398-419
Selectors(username) ==
    IF username THEN UsernameSelectors \o GenericSelectors ELSE GenericSelectors

\* "use another account" in (element.text or "").strip().lower()
IsUseAnotherAccount(text) ==
    text \in {"Use another account", "  use another account ", "+ USE ANOTHER ACCOUNT"}

Tile(text, click) == [text |-> text, click |-> click]

RECURSIVE ClickAnyFrom(_, _, _, _)

\* click_first without the test for "use another account"
ClickAnyFrom(elements, i, selector, log) ==
    IF i > Len(elements) THEN [clicked |-> FALSE, log |-> log]
    ELSE LET element == elements[i]
         IN  IF element.text = "raises"
             THEN ClickAnyFrom(elements, i + 1, selector, log)
             ELSE IF element.click = "ok"
             THEN [clicked |-> TRUE, log |-> Append(log, <<selector, "click", i>>)]
             ELSE ClickAnyFrom(elements, i + 1, selector,
                               Append(log, <<selector, "click_raised", i>>))

RECURSIVE ClickFirstFrom(_, _, _, _)

\* click_first, from the i-th element on
ClickFirstFrom(elements, i, selector, log) ==
    IF i > Len(elements) THEN [clicked |-> FALSE, log |-> log]
    ELSE LET element == elements[i]
         IN  IF element.text = "raises" \/ IsUseAnotherAccount(element.text)
             THEN ClickFirstFrom(elements, i + 1, selector, log)
             ELSE IF element.click = "ok"
             THEN [clicked |-> TRUE, log |-> Append(log, <<selector, "click", i>>)]
             ELSE ClickFirstFrom(elements, i + 1, selector,
                                 Append(log, <<selector, "click_raised", i>>))

RECURSIVE SelectorLoop(_, _, _)

\* the loop over selectors of lines 421-429
SelectorLoop(selectors, page, log) ==
    IF selectors = <<>> THEN [result |-> FALSE, log |-> log]
    ELSE LET selector == Head(selectors)
             found == page[selector]
             elements == IF found.status = "raise" THEN <<>> ELSE found.elements
             sought == Append(log, <<selector, "find", 0>>)
             r == ClickFirstFrom(elements, 1, selector, sought)
         IN  IF r.clicked THEN [result |-> TRUE, log |-> r.log]
             ELSE SelectorLoop(Tail(selectors), page, r.log)

TrySelectAccountTile(username, page) == SelectorLoop(Selectors(username), page, <<>>)

AllSelectors == {Selectors(TRUE)[i] : i \in 1..Len(Selectors(TRUE))}

TileLists ==
    { [status |-> "raise", elements |-> <<>>],
      [status |-> "ok", elements |-> <<>>],
      [status |-> "ok", elements |-> <<Tile("raises", "ok"),
                                       Tile("  use another account ", "ok"),
                                       Tile("alice@example.com", "raises")>>],
      [status |-> "ok", elements |-> <<Tile("Use another account", "ok"),
                                       Tile("alice@example.com", "ok"),
                                       Tile("", "ok")>>] }

TilePages == [AllSelectors -> TileLists]

TileInit ==
    /\ MainIdle
    /\ \E username \in BOOLEAN, page \in TilePages :
          call = [fn |-> "select_account", username |-> username, page |-> page,
                  username_field |-> "waiting"]
    /\ ret = Pending

\* the wait for the loginfmt field of lines 502-506
UsernameFieldWait ==
    /\ call.fn = "select_account"
    /\ call.username_field = "waiting"
    /\ \E outcome \in {"found", "timeout"} :
          call' = [call EXCEPT !.username_field = outcome]
    /\ UNCHANGED <<ret, mainVars>>

\* except TimeoutException: account_picked = try_select_account_tile(...)
TrySelectAccountTileCall ==
    /\ call.fn = "select_account"
    /\ call.username_field = "timeout"
    /\ ret = Pending
    /\ ret' = TrySelectAccountTile(call.username, call.page)
    /\ UNCHANGED <<call, mainVars>>

TileNext == UsernameFieldWait \/ TrySelectAccountTileCall

SpecTile == TileInit /\ [][TileNext]_vars

(***************************************************************************)
(* wait_for_access_token                                                   *)
(*                                                                         *)
(* Time is counted in whole seconds since the call.  A poll reads the      *)
(* storage as it is at that moment and may itself take a second;           *)
(* time.sleep(1.0) takes one second, or two when the process is delayed.   *)
(* call.polls lists the polls made: <<time the poll began, what the        *)
(* storage read gave>>.                                                    *)
(***************************************************************************)
MaxTimeout == 3

\* what the storage can hold at the moment of a poll
WaitReads ==
    { [status |-> "raise", entries |-> <<>>],
      [status |-> "ok", entries |-> <<>>],
      [status |-> "ok", entries |-> <<TextEntry(<<3>>), DictEntry(Tagged("none", <<6>>))>>],
      [status |-> "ok", entries |-> <<DictEntry(Tagged("graph.microsoft.com", <<11, 11, 11>>))>>] }

WaitInit ==
    /\ MainIdle
    /\ \E timeout_seconds \in 0..MaxTimeout :
          call = [fn |-> "wait_for_access_token", timeout_seconds |-> timeout_seconds,
                  deadline |-> timeout_seconds, now |-> 0, at |-> "while", polls |-> <<>>]
    /\ ret = Pending

\* the loop test read as time.time() <= deadline
WaitTestInclusive ==
    /\ call.fn = "wait_for_access_token" /\ ret = Pending
    /\ call.at = "while"
    /\ IF call.now <= call.deadline
       THEN call' = [call EXCEPT !.at = "poll"] /\ UNCHANGED ret
       ELSE ret' = [status |-> "returned", value |-> NoToken] /\ UNCHANGED call
    /\ UNCHANGED mainVars

\* while time.time() < deadline, and return None after the loop
WaitTest ==
    /\ call.fn = "wait_for_access_token" /\ ret = Pending
    /\ call.at = "while"
    /\ IF call.now < call.deadline
       THEN call' = [call EXCEPT !.at = "poll"] /\ UNCHANGED ret
       ELSE ret' = [status |-> "returned", value |-> NoToken] /\ UNCHANGED call
    /\ UNCHANGED mainVars

\* token = extract_access_token(driver); if token: return token
WaitPoll ==
    /\ call.fn = "wait_for_access_token" /\ ret = Pending
    /\ call.at = "poll"
    /\ \E read \in WaitReads, took \in 0..1 :
          LET token == ExtractAccessToken(read)
          IN  /\ call' = [call EXCEPT !.polls = Append(@, <<call.now, read>>),
                                      !.now = @ + took,
                                      !.at = IF TokTruthy(token) THEN "return" ELSE "sleep"]
              /\ ret' = IF TokTruthy(token)
                        THEN [status |-> "returned", value |-> token] ELSE ret
    /\ UNCHANGED mainVars

\* time.sleep(1.0)
WaitSleep ==
    /\ call.fn = "wait_for_access_token" /\ ret = Pending
    /\ call.at = "sleep"
    /\ \E slept \in 1..2 : call' = [call EXCEPT !.now = @ + slept, !.at = "while"]
    /\ UNCHANGED <<ret, mainVars>>

WaitNext == WaitTest \/ WaitPoll \/ WaitSleep

SpecWait == WaitInit /\ [][WaitNext]_vars

\* the interpreter keeps running the function until it returns
SpecWaitFair == SpecWait /\ WF_vars(WaitNext)

(***************************************************************************)
(* main: claims                                                            *)
(***************************************************************************)
Finished == pc = "done"

StrategyNumbers == [i \in 1..Len(strategies) |-> strategies[i][1]]

\* C1: the four acquisition strategies are begun in the order 1, 2, 3, 4, each
\* only while no token is held, and the run ends with a failure for lack of a
\* token only after all four have been begun.
C1_FallbackChainExhausted ==
    /\ \A i, j \in 1..Len(strategies) :
          i < j => strategies[i][1] < strategies[j][1]
    /\ \A i \in 1..Len(strategies) : ~strategies[i][2]
    /\ (Finished /\ abort \in {"token", "run_query"}) =>
          StrategyNumbers = <<1, 2, 3, 4>>

\* C2: a finished run has exit code 0 and exactly one report, or exit code 1
\* and no report; and it is without a report only because the Graph Explorer
\* window was not found or because no token was held.
C2_ExitContract ==
    Finished =>
      \/ exit_code = 0 /\ Len(stdout) = 1
      \/ /\ exit_code = 1 /\ stdout = <<>>
         /\ abort \in {"window", "token", "run_query"}

\* C3: once build_driver has returned, driver.quit() is called exactly once on
\* every way out of main (return 0, each return 1, an uncaught exception), never
\* before the end, and the session is not used after it.
C3_SessionReleasedOnce ==
    /\ quits <= 1
    /\ ~opsAfterQuit
    /\ Finished => (driver = "quit" /\ quits = 1)
    /\ ~Finished => (quits = 0 /\ driver # "quit")

\* a run that an uncaught exception ended has released the session
C3_Witness ==
    /\ Finished /\ abort = "exception" /\ exit_code = 1
    /\ driver = "quit" /\ quits = 1
    /\ headers # NoToken

SignInFlowWaits ==
    {"page_body", "sign_in_button", "login_body", "username_field", "password_field",
     "continue_button", "push_button", "stay_signed_in", "post_navigation_body",
     "run_query_button", "token_controls"}

\* C4: no bounded wait of the sign-in flow ends the run by timing out: after
\* the timeout the machine is at its fallback branch, not finished.
C4_TimeoutsTakeFallback ==
    Finished => ~(lastWait.timedOut /\ lastWait.name \in SignInFlowWaits)

\* C11: the value sent as the bearer token has exactly three dot-separated
\* parts, each longer than 10 characters, whichever step acquired it.
C11_BearerLooksLikeJwt == headers # NoToken => LooksLikeJwt(headers)

\* C12: once main holds a non-empty access token, no later step replaces or
\* clears it.
C12_TokenReadOnly == [][TokTruthy(access_token) => access_token' = access_token]_vars

\* the interactions of the interactive sign-in, lines 459-590
SignInSteps ==
    {"click_sign_in", "switch_login_window", "type_username", "type_password",
     "click_tile", "click_continue", "click_push", "click_stay_signed_in"}

SignInPcs ==
    {"login_window", "login_body", "username_field", "account_tile", "password_field",
     "continue_button", "push_button", "stay_signed_in"}

\* C15: the first storage poll has returned before any step of the sign-in
\* is performed, and when it returned a token no step of the interactive
\* sign-in is ever performed in the run.
C15_ExistingSessionFirst ==
    /\ (ui \cap SignInSteps # {} \/ pc \in SignInPcs) => initialPoll.done
    /\ (initialPoll.done /\ TokTruthy(initialPoll.token)) =>
          (ui \cap SignInSteps = {} /\ pc \notin SignInPcs \cup {"sign_in_button"})

\* a run that reused the session found by the first poll and printed its report
C15_Witness ==
    /\ Finished /\ exit_code = 0
    /\ TokTruthy(initialPoll.token) /\ headers = initialPoll.token
    /\ ui \cap SignInSteps = {}

\* C16: a step of the interactive sign-in is performed only after the sign-in
\* button was clicked; when the button is not found the run is at the scan
\* for the Graph Explorer window and no step of the sign-in was performed.
C16_SignInOnlyAfterClick ==
    /\ (ui \cap (SignInSteps \ {"click_sign_in"}) # {} \/ pc \in SignInPcs) =>
          "click_sign_in" \in ui
    /\ (lastWait.name = "sign_in_button" /\ lastWait.timedOut) =>
          (pc = "verify_window" /\ ui \cap SignInSteps = {})

\* a run without a stored session in which the sign-in button was not found,
\* which got its token from a later poll and printed its report
C16_Witness ==
    /\ Finished /\ exit_code = 0
    /\ initialPoll.done /\ ~TokTruthy(initialPoll.token)
    /\ <<2, FALSE>> \in {strategies[i] : i \in 1..Len(strategies)}
    /\ ui \cap SignInSteps = {}

\* the sign-in was begun and then given up
Abandoned == ~sign_in_clicked /\ "click_sign_in" \in ui

\* C17: the step that gives up the sign-in (sign_in_clicked reset) types and
\* clicks nothing, does not end the run and leads to the scan for the Graph
\* Explorer window, directly or after the poll of line 525; after it no step
\* of the sign-in is performed.
C17_AbandonNotFatal ==
    [][/\ (sign_in_clicked /\ ~sign_in_clicked') =>
             /\ pc' \in {"verify_window", "poll_skipped_login"}
             /\ ui' \ ui \subseteq {"switch_login_window", "switch_window"}
       /\ Abandoned =>
             /\ ui' \cap SignInSteps = ui \cap SignInSteps
             /\ pc' \notin SignInPcs
             /\ pc = "poll_skipped_login" => pc' = "verify_window"]_vars

\* a run that typed the username, gave up at the password field for lack of
\* a password, and still printed its report
C17_Witness ==
    /\ Finished /\ exit_code = 0 /\ Abandoned
    /\ "type_username" \in ui /\ "type_password" \notin ui
    /\ "click_continue" \notin ui

\* C19: the scan for the Graph Explorer window of lines 609-617 never ends the
\* run: when no window has the title the run goes on (by navigating back).
C19_WindowMissingNavigatesBack == ~(Finished /\ abort = "window")

\* the clicks on the get-access-token control: the three locators of
\* trigger_token_request, and the click of lines 636-640, whose locator is the
\* first of the three
GetTokenUi == {"get_token_1", "get_token_2", "get_token_3", "click_token_tab"}

GetTokenWaited(u) == {k \in 1..3 : GetTokenWait(k) \subseteq u}

GetTokenClicked(u) == {k \in 1..3 : GetTokenClick(k) \subseteq u}

\* C20: trigger_token_request runs only while no token is held; it waits for
\* its locators in the order 1, 2, 3 and stops at the first it can click, so at
\* most one is clicked; it then waits for the run-query button, and the next
\* step is the storage poll; and while a token is held no step clicks the
\* get-access-token control.
C20_TriggerOnlyWithoutToken ==
    [][/\ pc = "trigger" =>
             /\ ~TokTruthy(access_token)
             /\ \E n \in 1..3 : GetTokenWaited(ui') = 1..n
             /\ Cardinality(GetTokenClicked(ui')) <= 1
             /\ \A k \in GetTokenClicked(ui') : GetTokenWaited(ui') = 1..k
             /\ "wait_run_query" \in ui'
             /\ pc' = "poll_triggered"
       /\ TokTruthy(access_token) => ui' \cap GetTokenUi = ui \cap GetTokenUi]_vars

\* the statements of main in the order of the text
PcOrder ==
    <<"build_driver", "load_page", "poll_existing", "sign_in_button", "login_window",
      "login_body", "username_field", "account_tile", "poll_skipped_login",
      "password_field", "continue_button", "push_button", "stay_signed_in",
      "graph_window", "navigate_back", "poll_after_sign_in", "verify_window",
      "run_query_wait", "token_button", "copy_button", "poll_final", "trigger",
      "poll_triggered", "dom_scan", "fetch_events", "assemble", "done">>

Rank(p) == CHOOSE i \in 1..Len(PcOrder) : PcOrder[i] = p

\* the acquisition has ended: a token is held and the requests begin, or the
\* run has ended with exit code 1
AcquisitionEnded ==
    \/ pc = "fetch_events" /\ TokTruthy(access_token)
    \/ Finished /\ exit_code = 1

\* C22: every step of main moves to a statement further down, so that no
\* statement of the acquisition is executed twice, and every run reaches the
\* end of the acquisition: a token is held, or the run has ended with exit
\* code 1.
C22_AcquisitionTerminates ==
    /\ [][Rank(pc') > Rank(pc)]_vars
    /\ [](pc = "fetch_events" => TokTruthy(access_token))
    /\ <>AcquisitionEnded

\* a run that went through the whole sign-in, navigated back, tried every
\* strategy and ended without a token
C22_Witness ==
    /\ Finished /\ exit_code = 1 /\ abort = "token"
    /\ {"click_sign_in", "click_stay_signed_in", "navigate_back", "wait_get_token_3"}
          \subseteq ui
    /\ StrategyNumbers = <<1, 2, 3, 4>>

(***************************************************************************)
(* month_range: claims                                                     *)
(***************************************************************************)
\* the exact form YYYY-MM: four digits, a hyphen, two digits naming 01..12
IsYYYYMM(s) ==
    /\ Len(s) = 7
    /\ \A i \in {1, 2, 3, 4, 6, 7} : IsDigit(s[i])
    /\ s[5] = "-"
    /\ DigitVal(s[6]) * 10 + DigitVal(s[7]) \in 1..12

FormYear(s) ==
    DigitVal(s[1]) * 1000 + DigitVal(s[2]) * 100 + DigitVal(s[3]) * 10 + DigitVal(s[4])

FormMonth(s) == DigitVal(s[6]) * 10 + DigitVal(s[7])

IsoLe(a, b) ==
    \/ a.y < b.y
    \/ a.y = b.y /\ a.m < b.m
    \/ a.y = b.y /\ a.m = b.m /\ a.t <= b.t

MonthReturned == call.fn = "month_range" /\ ret # Pending

\* C8: every window month_range returns has start <= end, also for the current
\* month and for a month in the future.
C8_StartLeEnd ==
    (MonthReturned /\ ret.status = "ok") => IsoLe(ret.start_iso, ret.end_iso)

\* C9: for a specifier of the form YYYY-MM for which month_range returns, start
\* is the first instant of that month; end is the last second of that month
\* when the month lies entirely before now, and end is now (to the second) when
\* the month is the current month.
C9_WindowOfMonth ==
    (MonthReturned /\ ret.status = "ok" /\ Truthy(call.month_value)
        /\ IsYYYYMM(call.month_value.text)) =>
      LET y == FormYear(call.month_value.text)
          m == FormMonth(call.month_value.text)
          now == call.now
      IN  /\ ret.start_iso = [y |-> y, m |-> m, t |-> 0]
          /\ ret.key = [y |-> y, m |-> m]
          /\ (y < now.y \/ (y = now.y /\ m < now.m)) =>
                ret.end_iso = [y |-> y, m |-> m, t |-> SecondsInMonth(y, m) - 1]
          /\ (y = now.y /\ m = now.m) =>
                ret.end_iso = [y |-> now.y, m |-> now.m, t |-> now.t]

\* a December that lies entirely before now has been resolved
C9_Witness ==
    /\ MonthReturned /\ ret.status = "ok" /\ Truthy(call.month_value)
    /\ IsYYYYMM(call.month_value.text)
    /\ FormMonth(call.month_value.text) = 12
    /\ FormYear(call.month_value.text) < call.now.y
    /\ ret.end_iso.t = 2678399

\* C10: month_range fails with the invalid-month-format error for every
\* non-empty input that is not of the exact form YYYY-MM, and accepts every
\* input of that form.
C10_ExactForm ==
    (MonthReturned /\ Truthy(call.month_value)) =>
      /\ ~IsYYYYMM(call.month_value.text) => ret.status = "InvalidMonthFormat"
      /\ IsYYYYMM(call.month_value.text) => ret.status = "ok"

(***************************************************************************)
(* Report assembly, fetch_events, fetch_attendance: claims                 *)
(***************************************************************************)
AssembleReturned == call.fn = "assemble" /\ ret # Pending

FetchReturned == call.fn = "fetch_events" /\ ret # Pending

\* both the start and the end of the event parse
BothParse(e) == e.start \in {"naive", "aware"} /\ e.end \in {"naive", "aware"}

RECURSIVE Retained(_)
Retained(events) ==
    IF events = <<>> THEN <<>>
    ELSE IF BothParse(Head(events)) THEN <<Head(events).id>> \o Retained(Tail(events))
    ELSE Retained(Tail(events))

IdsOf(meetings) == [i \in 1..Len(meetings) |-> meetings[i].id]

\* C5: the report's meetings are exactly the fetched events whose start and end
\* both parse, in the order fetched, and its count is the length of that sequence.
C5_ReportKeepsParsable ==
    (AssembleReturned /\ ~ret.raised) =>
      /\ IdsOf(ret.output.meetings) = Retained(call.events)
      /\ ret.output.count = Len(Retained(call.events))

\* two raw events, the second without a start dateTime: a report of one meeting
C5_Witness ==
    /\ AssembleReturned /\ ~ret.raised
    /\ Len(call.events) = 2
    /\ call.events[1].id = 1 /\ call.events[2].id = 2
    /\ ret.output.count = 1
    /\ IdsOf(ret.output.meetings) = <<1>>

RECURSIVE ItemsUpTo(_, _)
ItemsUpTo(pages, n) ==
    IF n = 0 THEN <<>> ELSE ItemsUpTo(pages, n - 1) \o pages[n].items

\* the first page that does not answer with a success status, or one past the chain
FirstNotOk(pages) ==
    LET bad == {i \in 1..Len(pages) : pages[i].status # "ok"}
    IN  IF bad = {} THEN Len(pages) + 1 ELSE MinOf(bad)

\* C6: fetch_events requests the pages in order up to the first one that does
\* not succeed, each once and none after it; when that page answers with a
\* non-success status (or the chain ends) the call returns, without raising,
\* the items of the pages before it, concatenated in order.
C6_StopsAtFailedPage ==
    FetchReturned =>
      LET pages == call.pages
          stop == FirstNotOk(pages)
          last == IF stop > Len(pages) THEN Len(pages) ELSE stop
      IN  /\ ret.requested = [i \in 1..last |-> i]
          /\ (stop > Len(pages) \/ pages[stop].status = "fail") =>
                /\ ~ret.raised
                /\ ret.events = ItemsUpTo(pages, stop - 1)

\* page 1 succeeds with items, page 2 fails, and a third page was there to fetch
C6_Witness ==
    /\ FetchReturned
    /\ Len(call.pages) = 3
    /\ call.pages[1].status = "ok" /\ call.pages[1].items # <<>>
    /\ call.pages[2].status = "fail"
    /\ call.pages[3].status = "ok"
    /\ ret.events = call.pages[1].items
    /\ ret.requested = <<1, 2>>

MeetFound(server) ==
    server.meet.status = "ok" /\ server.meet.value # <<>> /\ server.meet.value[1] # 0

\* C7: fetch_attendance returns absent, without raising and without a later
\* request of the chain, when the join url is absent, when the meeting lookup
\* finds nothing, when the reports list is empty, or when one of the three
\* requests fails or answers with a non-success status; and no attendance
\* outcome aborts the run or removes the event from the report.
C7_AttendanceNeverFatal ==
    AssembleReturned =>
      /\ ~ret.raised
      /\ IdsOf(ret.output.meetings) = Retained(call.events)
      /\ \A i \in 1..Len(ret.calls) :
            LET c == ret.calls[i]
                server == call.server
            IN  /\ c.join = "none" => (c.result = Absent /\ c.log = <<>>)
                /\ (c.join # "none" /\ ~MeetFound(server)) =>
                      (c.result = Absent /\ c.log = <<"meetings">>)
                /\ (c.join # "none" /\ MeetFound(server)
                      /\ (server.reports.status # "ok" \/ server.reports.value = <<>>)) =>
                      (c.result = Absent /\ c.log = <<"meetings", "reports">>)
                /\ (Len(c.log) = 3 /\ server.records.status # "ok") =>
                      c.result = Absent

\* with attendance requested, the reports request of a retained event raises and
\* the event is in the report without attendance
C7_Witness ==
    /\ AssembleReturned /\ ~ret.raised
    /\ call.attendance
    /\ MeetFound(call.server) /\ call.server.reports.status = "raise"
    /\ Len(ret.calls) = 1 /\ ret.calls[1].join = "u1"
    /\ ret.calls[1].log = <<"meetings", "reports">>
    /\ ret.output.count = 1
    /\ ret.output.meetings[1].attendance = Absent

\* the reports of the response whose createdDateTime is the greatest
LatestReports(server) ==
    LET reports == server.reports.value
    IN  {reports[i] : i \in {j \in 1..Len(reports) :
            \A k \in 1..Len(reports) : reports[k].created <= reports[j].created}}

DistinctEmails(records) == {records[i] : i \in 1..Len(records)} \ {""}

\* C23: when the three requests of fetch_attendance are made and answered
\* with success, the records are those of a report whose createdDateTime is
\* the greatest of the list, and the result is the number of those records
\* with their distinct non-empty emails; so the count is at least the number
\* of emails.
C23_LatestReportCounted ==
    AssembleReturned =>
      \A i \in 1..Len(ret.calls) :
         LET c == ret.calls[i]
             server == call.server
         IN  (c.log = <<"meetings", "reports", "records">> /\ server.records.status = "ok")
               => /\ c.result.present
                  /\ \E r \in LatestReports(server) :
                        LET records == server.records.value[r.id]
                        IN  /\ c.result.count = Len(records)
                            /\ c.result.emails = DistinctEmails(records)
                  /\ c.result.count >= Cardinality(c.result.emails)

\* the latest report comes first in the response; its three records, two of
\* them of the same participant, are counted
C23_Witness ==
    /\ AssembleReturned /\ ~ret.raised
    /\ call.server.reports.value = <<Report(2, 5), Report(1, 3)>>
    /\ Len(ret.calls) >= 1
    /\ ret.calls[1].result = Present(3, {"a@x", "b@x"})

(***************************************************************************)
(* extract_access_token: claims                                            *)
(***************************************************************************)
ExtractReturned == call.fn = "extract_access_token" /\ ret # Pending

StorageRead == call.read.status = "ok"

\* the objects of the storage that are tagged as access credentials
TaggedEntries ==
    UNION {{TaggedOf(e.obj)[i] : i \in 1..Len(TaggedOf(e.obj))} :
             e \in {call.read.entries[i] : i \in 1..Len(call.read.entries)}}

GraphSecrets == {t.secret : t \in {u \in TaggedEntries : HasGraphSecret(u)}}

\* C13: when the storage holds an entry tagged as an access credential whose
\* target mentions the Graph host and that has a secret, extract_access_token
\* returns the secret of such an entry, whatever else the storage holds and in
\* whatever order.
C13_GraphHostPreferred ==
    (ExtractReturned /\ StorageRead /\ GraphSecrets # {}) => ret.value \in GraphSecrets

RECURSIVE ObjHasJwt(_)

ObjHasJwt(obj) ==
    \/ LooksLikeJwt(obj.secret) \/ LooksLikeJwt(obj.accessToken)
    \/ LooksLikeJwt(obj.access_token)
    \/ \E i \in 1..Len(obj.nested) : ObjHasJwt(obj.nested[i])

EntryHasJwt(e) == LooksLikeJwt(e.tok) \/ (e.kind = "dict" /\ ObjHasJwt(e.obj))

\* C14: extract_access_token returns None when reading the storage fails and
\* when no raw value and no field of a structured value looks like a JWT.
C14_AbsentWithoutJwt ==
    (/\ ExtractReturned
     /\ \/ ~StorageRead
        \/ \A i \in 1..Len(call.read.entries) : ~EntryHasJwt(call.read.entries[i]))
      => ret.value = NoToken

(***************************************************************************)
(* try_select_account_tile: claims                                         *)
(***************************************************************************)
TileReturned == call.fn = "select_account" /\ ret # Pending

IsFind(entry) == entry[2] = "find"

\* the locators the function asked the page for, in the order of the calls
LocatorsTried == [i \in 1..Len(SelectSeq(ret.log, IsFind)) |-> SelectSeq(ret.log, IsFind)[i][1]]

Clicks == {i \in 1..Len(ret.log) : ret.log[i][2] = "click"}

ClickAttempts == {i \in 1..Len(ret.log) : ret.log[i][2] \in {"click", "click_raised"}}

TileOf(entry) == call.page[entry[1]].elements[entry[3]]

\* C18: try_select_account_tile is called only after the wait for the username
\* field timed out; it asks for its locators in the order of the list, the two
\* username locators first when a username is configured; at most one click
\* succeeds and it is the last thing done; no element whose text contains
\* "use another account" is clicked; the result is true exactly when a click
\* succeeded.
C18_TileSelection ==
    TileReturned =>
      /\ call.username_field = "timeout"
      /\ Len(LocatorsTried) >= 1
      /\ LocatorsTried = SubSeq(Selectors(call.username), 1, Len(LocatorsTried))
      /\ Cardinality(Clicks) <= 1
      /\ \A i \in Clicks : i = Len(ret.log)
      /\ \A i \in ClickAttempts : ~IsUseAnotherAccount(TileOf(ret.log[i]).text)
      /\ ret.result <=> Clicks # {}
      /\ ~ret.result => LocatorsTried = Selectors(call.username)

\* with a username configured, the username locators found nothing clickable
\* (the second one only the use-another-account tile and a tile whose click
\* raised) and the tile of the first generic locator was clicked
C18_Witness ==
    /\ TileReturned /\ call.username /\ ret.result
    /\ LocatorsTried = <<"xpath_username_lowercase", "xpath_username_ancestor",
                         "css_accountTile">>
    /\ ret.log[Len(ret.log)] = <<"css_accountTile", "click", 2>>
    /\ <<"xpath_username_ancestor", "click_raised", 3>> \in
          {ret.log[i] : i \in 1..Len(ret.log)}

(***************************************************************************)
(* wait_for_access_token: claims                                           *)
(***************************************************************************)
WaitReturned == call.fn = "wait_for_access_token" /\ ret # Pending

PollFound(i) == ExtractAccessToken(call.polls[i][2])

\* what holds of the polls at every moment of a call
WaitPollsInOrder ==
    call.fn = "wait_for_access_token" =>
      /\ \A i \in 1..Len(call.polls) : call.polls[i][1] < call.deadline
      /\ \A i \in 1..(Len(call.polls) - 1) :
            /\ call.polls[i + 1][1] >= call.polls[i][1] + 1
            /\ ~TokTruthy(PollFound(i))
      /\ call.timeout_seconds = 0 => call.polls = <<>>
      /\ WaitReturned =>
            IF TokTruthy(ret.value)
            THEN /\ call.polls # <<>>
                 /\ ret.value = PollFound(Len(call.polls))
            ELSE /\ ret.value = NoToken
                 /\ call.now >= call.deadline
                 /\ \A i \in 1..Len(call.polls) : ~TokTruthy(PollFound(i))

\* C21: the polls of wait_for_access_token begin before the deadline and at
\* least one second apart; a poll is made only after all earlier ones found
\* nothing; the value returned is what the last poll found when that is a
\* token, and None only when the deadline has passed and no poll found one;
\* no poll is made when the timeout is zero; and the call returns.
C21_PollsUntilFoundOrDeadline == []WaitPollsInOrder /\ <>WaitReturned

\* a call that found nothing twice and got the token at its third poll
C21_Witness ==
    /\ WaitReturned /\ TokTruthy(ret.value)
    /\ Len(call.polls) = 3
    /\ call.polls[1][2].status = "raise"

(***************************************************************************)
(* main: the requests to the calendar and attendance APIs                  *)
(***************************************************************************)
SeqRange(q) == {q[i] : i \in 1..Len(q)}

AttendanceRequests == {r \in api_requests : r.api # "events"}

\* C24: every request carries the token main holds, which is not empty and is
\* the same for all of them; no request is issued before the acquisition has
\* ended with a token; a request for attendance is issued only when
\* args.attendance is set, and only for an event that passed the test of its
\* times and is in the report.
C24_RequestsCarryOneToken ==
    /\ \A r \in api_requests :
          /\ TokTruthy(r.token)
          /\ r.token = headers /\ r.token = access_token
    /\ api_requests # {} => pc \in {"assemble", "done"}
    /\ AttendanceRequests # {} =>
          /\ cfg.attendance
          /\ Len(stdout) = 1
          /\ \A r \in AttendanceRequests :
                /\ r.event \in SeqRange(IdsOf(stdout[1].meetings))
                /\ r.event \in SeqRange(Retained(all_events))

\* a run with attendance requested that issued the three attendance requests
\* for the one retained event of the two fetched, with the token of the
\* events request
C24_Witness ==
    /\ Finished /\ exit_code = 0 /\ cfg.attendance
    /\ Len(all_events) = 2
    /\ {r.api : r \in api_requests} = {"events", "meetings", "reports", "records"}
    /\ {r.event : r \in AttendanceRequests} = {1}
    /\ {r.token : r \in api_requests} = {<<11, 11, 11>>}

RunQueryTimedOut == lastWait.name = "run_query_button" /\ lastWait.timedOut

\* C25: the step that waits for the run-query button ends the run, with exit
\* code 1, exactly when the wait timed out (or the window was gone) and no
\* token is held; when it timed out with a token held, main goes on to the
\* next statement holding that token.
C25_RunQueryTimeout ==
    [][pc = "run_query_wait" =>
         /\ pc' = "done" <=> (RunQueryTimedOut' /\ ~TokTruthy(access_token))
         /\ pc' = "done" => (exit_code' = 1 /\ abort' = "run_query" /\ stdout' = <<>>)
         /\ (RunQueryTimedOut' /\ TokTruthy(access_token)) =>
               /\ pc' \in {"token_button", "fetch_events"}
               /\ access_token' = access_token
               /\ exit_code' = -1]_vars

\* the run-query button did not appear, a token is held, and main is at the
\* requests with it
C25_Witness ==
    /\ RunQueryTimedOut /\ pc = "fetch_events"
    /\ TokTruthy(access_token) /\ cfg.headless
====
